---- MODULE Spec2Model ----
(***************************************************************************)
(* selector-action: selectorAction (src/selectorAction.js) composes        *)
(* selectors and an action creator into a dual-mode callable, and the      *)
(* modified thunk middleware (src/middleware.js) runs such callables when  *)
(* they are dispatched.                                                    *)
(*                                                                         *)
(* Every JavaScript value is a record of one shape,                        *)
(*   [k |-> typeof, n |-> name or literal, id |-> heap index, xs |-> parts]*)
(* so that any two values can be compared.  Functions created by the       *)
(* library live in two heaps (units, thunks); the functions supplied by    *)
(* callers are named values whose behaviour CallUser gives.                *)
(***************************************************************************)
EXTENDS Integers, Sequences, FiniteSets, TLC

\* ------------------------------------------------------------------ bounds
MaxSelectors == 2   \* selectors per construction
MaxUnits     == 2   \* composed units constructed in one behaviour
MaxThunks    == 1   \* thunks kept by callers in one behaviour
MaxFresh     == 2   \* thunks of one unit kept while the store's state changes

\* ------------------------------------------------------------------ values
V(k, n, id, xs) == [k |-> k, n |-> n, id |-> id, xs |-> xs]

Undefined == V("undefined", "undefined", 0, <<>>)
True  == V("boolean", "true", 0, <<>>)
False == V("boolean", "false", 0, <<>>)
Str(s)    == V("string", s, 0, <<>>)
Num(s)    == V("number", s, 0, <<>>)
Fn(name)  == V("function", name, 0, <<>>)
Obj(name, xs) == V("object", name, 0, xs)
ArrayLit(xs)  == V("object", "Array", 0, xs)

\* typeof x === 'function'
IsFunction(v) == v.k = "function"
\* Array.isArray(x)
IsArray(v) == v.k = "object" /\ v.n = "Array"
\* ToBoolean(x), as `a && b` and `if (x)` apply it
Truthy(v) ==
  /\ v.k # "undefined"
  /\ ~(v.k = "number" /\ v.n = "0")
  /\ ~(v.k = "string" /\ v.n = "")
  /\ ~(v.k = "boolean" /\ v.n = "false")
  /\ ~(v.k = "object" /\ v.n = "null")

\* The library's own function objects, by heap index.
UnitRef(i)  == V("function", "generatedActionCreator", i, <<>>)
ThunkRef(i) == V("function", "internalGeneratedSelectorAction", i, <<>>)
IsUnitRef(v)  == v.k = "function" /\ v.n = "generatedActionCreator"
IsThunkRef(v) == v.k = "function" /\ v.n = "internalGeneratedSelectorAction"

\* Error messages.
ArityMsg    == "selectorAction called with no arguments"
ActionCreatorMsg == "Action creators must be functions"
SelectorMsg == "Selectors must be functions"
NotAFunctionMsg(what) == "TypeError: " \o what \o " is not a function"
PropertyOfUndefinedMsg == "TypeError: Cannot read property 'FOO' of undefined"
DestructureMsg == "TypeError: Cannot destructure property 'dispatch' of undefined"
NoStateMsg == "Error: no state"
NoActionMsg == "Error: no action"

\* --------------------------------------------------- caller-supplied values
\* Store states: { FOO: 'bar' } and { FOO: 'qux' }.
State(foo) == Obj("State", <<Str(foo)>>)
States == {State("bar"), State("qux")}

fooSelector == Fn("fooSelector")        \* (s) => s.FOO
bazSelector == Fn("bazSelector")        \* () => 'baz'
actionCreator == Fn("actionCreator")    \* (...a) => ({ type: 'A', payload: a })
fakeDispatch  == Fn("fakeDispatch")     \* (x) => x
storeDispatch == Fn("storeDispatch")    \* (x) => ({ dispatched: x })
getState   == Fn("getState")            \* () => store
doGetState == Fn("doGetState")          \* () => {}
nextStage  == Fn("next")                \* (x) => ({ next: x })
plainFn    == Fn("plainFn")             \* () => {}            no marker
markedFn   == Fn("markedFn")            \* () => 'rocks'       marker true
falseMarkFn == Fn("falseMarkFn")        \* () => 'rocks'       marker false
markedObj  == Obj("markedObj", <<>>)    \* { IS_SELECTOR_ACTION: true }
plainAction == Obj("FAKE", <<>>)        \* { type: 'FAKE', payload: false }
failingGetState == Fn("failingGetState")  \* () => { throw new Error('no state') }
failingCreator  == Fn("failingCreator")   \* () => { throw new Error('no action') }

UserFns == {"fooSelector", "bazSelector", "actionCreator",
            "fakeDispatch", "storeDispatch", "getState", "doGetState", "next",
            "plainFn", "markedFn", "falseMarkFn", "markedObj", "FAKE",
            "failingGetState", "failingCreator"}

\* What a caller-supplied function returns or throws: [ret, threw].
Returns(v) == [ret |-> v, threw |-> ""]
Throws(msg) == [ret |-> Undefined, threw |-> msg]
Arg(args, i) == IF i <= Len(args) THEN args[i] ELSE Undefined

CallUser(f, args, st) ==
  CASE ~IsFunction(f) -> Throws(NotAFunctionMsg(f.n))
    [] f.n = "fooSelector" ->
         IF Arg(args, 1).k = "undefined" THEN Throws(PropertyOfUndefinedMsg)
         ELSE IF Arg(args, 1).n = "State" THEN Returns(Arg(args, 1).xs[1])
         ELSE Returns(Undefined)
    [] f.n = "bazSelector" -> Returns(Str("baz"))
    [] f.n = "actionCreator" -> Returns(Obj("A", args))
    [] f.n = "fakeDispatch" -> Returns(Arg(args, 1))
    [] f.n = "storeDispatch" -> Returns(Obj("dispatched", <<Arg(args, 1)>>))
    [] f.n = "getState" -> Returns(st)
    [] f.n = "doGetState" -> Returns(Undefined)
    [] f.n = "next" -> Returns(Obj("next", <<Arg(args, 1)>>))
    [] f.n = "plainFn" -> Returns(Undefined)
    [] f.n = "markedFn" -> Returns(Str("rocks"))
    [] f.n = "falseMarkFn" -> Returns(Str("rocks"))
    [] f.n = "failingGetState" -> Throws(NoStateMsg)
    [] f.n = "failingCreator" -> Throws(NoActionMsg)
    [] OTHER -> Returns(Undefined)

\* One call made by the code: the callee and its arguments.
Call(f, args) == [fn |-> f, args |-> args]

\* The outcome of running a piece of code: the calls it made, in order, and
\* the value it returned or the error it threw; alloc tells whether the value
\* returned is a thunk created by this run.
Outcome(calls, ret, threw, alloc) ==
  [calls |-> calls, ret |-> ret, threw |-> threw, alloc |-> alloc]

\* ------------------------------------------------------------------- state
VARIABLES
  units,    \* heap: the generatedActionCreator function objects
  thunks,   \* heap: the internalGeneratedSelectorAction objects callers hold
  arrays,   \* heap: array objects (a caller's selector array, or a slice)
  markers,  \* IS_SELECTOR_ACTION property of each caller-supplied value
  store,    \* the state getState() returns
  mw,       \* the middleware chain: layers applied so far and what they captured
  last,     \* the most recent operation: inputs, calls made, result
  born      \* history: the store's state when each unit and thunk was created

vars == <<units, thunks, arrays, markers, store, mw, last, born>>

Record(op, target, args, st, out) ==
  [op |-> op, target |-> target, args |-> args, state |-> st,
   calls |-> out.calls, ret |-> out.ret, threw |-> out.threw]

InitMarkers ==
  [f \in UserFns |->
     CASE f = "markedFn" -> True
       [] f = "markedObj" -> True
       [] f = "falseMarkFn" -> False
       [] OTHER -> Undefined]

Init ==
  /\ units = <<>>
  /\ thunks = <<>>
  /\ arrays = <<>>
  /\ markers = InitMarkers
  /\ store \in States
  /\ mw = [stage |-> "created", dispatch |-> Undefined, getState |-> Undefined,
           next |-> Undefined]
  /\ last = Record("init", Undefined, <<>>, store, Outcome(<<>>, Undefined, "", FALSE))
  /\ born = [units |-> <<>>, thunks |-> <<>>]

\* --------------------------------------------------------- selectorAction
\* Mutant: args.slice(0) in place of args.slice(0, args.length - 1).
ResolveSelectorsKeepsLast(args) ==
  IF Len(args) = 2 /\ IsArray(args[1])
  THEN [elems |-> args[1].xs, owner |-> "caller"]
  ELSE [elems |-> args, owner |-> "slice"]

\* Mutant: the array form is taken whenever the first argument is an array.
ResolveSelectorsAnyLength(args) ==
  IF Len(args) >= 2 /\ IsArray(args[1])
  THEN [elems |-> args[1].xs, owner |-> "caller"]
  ELSE [elems |-> SubSeq(args, 1, Len(args) - 1), owner |-> "slice"]

\* Lines 8-13: the selectors of a construction.  With exactly two arguments
\* of which the first is an array, `selectors` IS that array (the caller's
\* object); otherwise it is a new array, args.slice(0, args.length - 1).
ResolveSelectors(args) ==
  IF Len(args) = 2 /\ IsArray(args[1])
  THEN [elems |-> args[1].xs, owner |-> "caller"]
  ELSE [elems |-> SubSeq(args, 1, Len(args) - 1), owner |-> "slice"]

\* Mutant: the selectors are not validated.
ConstructionErrorSkipsSelectors(args) ==
  IF Len(args) = 0 THEN ArityMsg
  ELSE IF ~IsFunction(args[Len(args)]) THEN ActionCreatorMsg
  ELSE ""

\* Mutant: the selectors are validated before the action creator.
ConstructionErrorSelectorsFirst(args) ==
  IF Len(args) = 0 THEN ArityMsg
  ELSE IF \E i \in 1..Len(ResolveSelectors(args).elems) :
            ~IsFunction(ResolveSelectors(args).elems[i])
       THEN SelectorMsg
  ELSE IF ~IsFunction(args[Len(args)]) THEN ActionCreatorMsg
  ELSE ""

\* Mutant: no arity check; args[args.length - 1] is then undefined.
ConstructionErrorNoArityCheck(args) ==
  IF Len(args) = 0 THEN ActionCreatorMsg
  ELSE IF ~IsFunction(args[Len(args)]) THEN ActionCreatorMsg
  ELSE IF \E i \in 1..Len(ResolveSelectors(args).elems) :
            ~IsFunction(ResolveSelectors(args).elems[i])
       THEN SelectorMsg
  ELSE ""

\* Lines 2-4 and 14-21: the error construction throws, "" for none.  The
\* action creator is checked before any selector; forEach stops at the first
\* selector that is not a function.
ConstructionError(args) ==
  IF Len(args) = 0 THEN ArityMsg
  ELSE IF ~IsFunction(args[Len(args)]) THEN ActionCreatorMsg
  ELSE IF \E i \in 1..Len(ResolveSelectors(args).elems) :
            ~IsFunction(ResolveSelectors(args).elems[i])
       THEN SelectorMsg
  ELSE ""

\* Mutant: originalActionCreator is the generated function itself.
NewUnitExposesGenerated(args, arrayId) ==
  [args |-> args,
   selectors |-> arrayId,
   actionCreator |-> args[Len(args)],
   originalActionCreator |-> UnitRef(Len(units) + 1),
   IS_SELECTOR_ACTION |-> True]

\* Lines 22-45: the function object selectorAction returns; its closure holds
\* `args`, `selectors` (an array of the heap) and `actionCreator`.
NewUnit(args, arrayId) ==
  [args |-> args,
   selectors |-> arrayId,
   actionCreator |-> args[Len(args)],
   originalActionCreator |-> args[Len(args)],
   IS_SELECTOR_ACTION |-> True]

\* Mutant: line 34 is missing, the thunk carries no marker.
NewThunkUnmarked(u) == [unit |-> u, IS_SELECTOR_ACTION |-> Undefined]

\* Lines 26-34: the function object generatedActionCreator creates per call;
\* its closure is that of the unit it came from.
NewThunk(u) == [unit |-> u, IS_SELECTOR_ACTION |-> True]

\* An outcome with further calls made before it.
Prefixed(calls, out) ==
  Outcome(calls \o out.calls, out.ret, out.threw, out.alloc)

\* f(...args) as the engine performs it: a TypeError when f is not callable,
\* otherwise one call of f and what it returned or threw.
Returned(res) == Outcome(<<>>, res.ret, res.threw, FALSE)
Invoke(f, args, st, what) ==
  IF ~IsFunction(f)
  THEN Outcome(<<>>, Undefined, NotAFunctionMsg(what), FALSE)
  ELSE Prefixed(<<Call(f, args)>>, Returned(CallUser(f, args, st)))

\* Line 31: selectors.map((selector) => selector(state)), left to right,
\* stopping at the first call that throws.
Mapped(calls, rets, threw) == [calls |-> calls, rets |-> rets, threw |-> threw]
\* Mutant: the selectors are called from the last to the first, their
\* results kept in construction order.
MapConsReversed(r, rest) ==
  Mapped(rest.calls \o r.calls, <<r.ret>> \o rest.rets, rest.threw)
MapCons(r, rest) ==
  Mapped(r.calls \o rest.calls, <<r.ret>> \o rest.rets, rest.threw)

RECURSIVE ApplySelectors(_, _, _, _)
MapFrom(sels, i, state, st, r) ==
  IF r.threw # "" THEN Mapped(r.calls, <<>>, r.threw)
  ELSE MapCons(r, ApplySelectors(sels, i + 1, state, st))

ApplySelectors(sels, i, state, st) ==
  IF i > Len(sels) THEN Mapped(<<>>, <<>>, "")
  ELSE MapFrom(sels, i, state, st, Invoke(sels[i], <<state>>, st, "selector"))

\* Mutant: dispatch is called also when the action creator threw.
DispatchResultAfterThrow(dispatch, a, st) ==
  Prefixed(a.calls, Invoke(dispatch, <<a.ret>>, st, "dispatch"))

\* Line 32, outer call: dispatch(a), a being what the action creator gave.
DispatchResult(dispatch, a, st) ==
  IF a.threw # "" THEN a
  ELSE Prefixed(a.calls, Invoke(dispatch, <<a.ret>>, st, "dispatch"))

\* Mutant: actionCreator(...appliedSelectors), the state is not passed.
DispatchActionWithoutState(ac, applied, state, dispatch, st) ==
  DispatchResult(dispatch, Invoke(ac, applied, st, "actionCreator"), st)

\* Line 32: dispatch(actionCreator(...appliedSelectors, state)).
DispatchAction(ac, applied, state, dispatch, st) ==
  DispatchResult(dispatch,
                 Invoke(ac, applied \o <<state>>, st, "actionCreator"), st)

\* Lines 31-32, once the selectors have been applied to `state`.
WithApplied(u, dispatch, state, m, st) ==
  IF m.threw # "" THEN Outcome(m.calls, Undefined, m.threw, FALSE)
  ELSE Prefixed(m.calls,
                DispatchAction(units[u].actionCreator, m.rets, state, dispatch, st))

\* Mutant: the state is the one the store had when the unit was built.
WithStateAtConstruction(u, dispatch, g, st) ==
  IF g.threw # "" THEN g
  ELSE Prefixed(g.calls,
                WithApplied(u, dispatch, born.units[u],
                            ApplySelectors(arrays[units[u].selectors].elems, 1,
                                           born.units[u], st),
                            st))

\* Lines 30-32, once getState() has been called.
WithState(u, dispatch, g, st) ==
  IF g.threw # "" THEN g
  ELSE Prefixed(g.calls,
                WithApplied(u, dispatch, g.ret,
                            ApplySelectors(arrays[units[u].selectors].elems, 1,
                                           g.ret, st),
                            st))

\* Lines 26-33: the thunk body, run for unit u with (dispatch, getState).
internalGeneratedSelectorAction(u, dispatch, getStateFn, st) ==
  WithState(u, dispatch, Invoke(getStateFn, <<>>, st, "getState"), st)

\* Line 36: if (dispatchArg && getStateArg).
CalledAsThunk(dispatchArg, getStateArg) ==
  Truthy(dispatchArg) /\ Truthy(getStateArg)

\* Mutant: the direct call runs `action` and then returns it.
ReturningAction(action, out) ==
  Outcome(out.calls, IF out.threw = "" THEN action ELSE Undefined, out.threw,
          out.threw = "")
generatedActionCreatorReturnsAction(u, dispatchArg, getStateArg, st) ==
  IF CalledAsThunk(dispatchArg, getStateArg)
  THEN ReturningAction(
         ThunkRef(Len(thunks) + 1),
         Prefixed(<<Call(ThunkRef(Len(thunks) + 1), <<dispatchArg, getStateArg>>)>>,
                  internalGeneratedSelectorAction(u, dispatchArg, getStateArg, st)))
  ELSE Outcome(<<>>, ThunkRef(Len(thunks) + 1), "", TRUE)

\* Lines 22-41: a call of unit u.  `action` is a new function object on every
\* call; it is either run at once (and then unreachable) or returned.
generatedActionCreator(u, dispatchArg, getStateArg, st) ==
  IF CalledAsThunk(dispatchArg, getStateArg)
  THEN Prefixed(<<Call(ThunkRef(Len(thunks) + 1), <<dispatchArg, getStateArg>>)>>,
                internalGeneratedSelectorAction(u, dispatchArg, getStateArg, st))
  ELSE Outcome(<<>>, ThunkRef(Len(thunks) + 1), "", TRUE)

\* ---------------------------------------------------------------- middleware
\* action.IS_SELECTOR_ACTION for a function value.
MarkerOf(v) ==
  IF IsUnitRef(v) THEN units[v.id].IS_SELECTOR_ACTION
  ELSE IF IsThunkRef(v) THEN thunks[v.id].IS_SELECTOR_ACTION
  ELSE IF v.n \in DOMAIN markers THEN markers[v.n]
  ELSE Undefined

\* Mutant: the typeof test is missing.
IsSelectorActionAnyMarked(v) == Truthy(MarkerOf(v))

\* Line 5: typeof action === 'function' && action.IS_SELECTOR_ACTION.
IsSelectorAction(v) == IsFunction(v) /\ Truthy(MarkerOf(v))

\* What the function value `action` does when called with (a, b).
RunFunction(action, a, b, st) ==
  IF IsUnitRef(action) THEN generatedActionCreator(action.id, a, b, st)
  ELSE IF IsThunkRef(action)
  THEN internalGeneratedSelectorAction(thunks[action.id].unit, a, b, st)
  ELSE Returned(CallUser(action, <<a, b>>, st))

\* Mutant: action(getState, dispatch).
CallActionSwapped(action, dispatch, getStateFn, st) ==
  Prefixed(<<Call(action, <<getStateFn, dispatch>>)>>,
           RunFunction(action, getStateFn, dispatch, st))

\* Line 6: action(dispatch, getState), for the three kinds of function.
CallAction(action, dispatch, getStateFn, st) ==
  Prefixed(<<Call(action, <<dispatch, getStateFn>>)>>,
           RunFunction(action, dispatch, getStateFn, st))

\* Line 9: next(action).
CallNext(next, action, st) == Invoke(next, <<action>>, st, "next")

\* Mutant: the result of action(dispatch, getState) is not returned; the
\* value falls through to next(action).
FallThrough(a, n) ==
  IF a.threw # "" THEN a
  ELSE Outcome(a.calls \o n.calls, n.ret, n.threw, a.alloc)
HandleValueFallsThrough(action, dispatch, getStateFn, next, st) ==
  IF IsSelectorAction(action)
  THEN FallThrough(CallAction(action, dispatch, getStateFn, st),
                   CallNext(next, action, st))
  ELSE CallNext(next, action, st)

\* Lines 4-10: the per-value decision.
HandleValue(action, dispatch, getStateFn, next, st) ==
  IF IsSelectorAction(action)
  THEN CallAction(action, dispatch, getStateFn, st)
  ELSE CallNext(next, action, st)

\* ------------------------------------------------------------------ inputs
\* Sequences over S of length at most n without repetition.
SeqsUpTo(S, n) ==
  UNION {{xs \in [1..k -> S] : \A i, j \in 1..k : xs[i] = xs[j] => i = j} : k \in 0..n}

Selectors == {fooSelector, bazSelector}
ActionCreators == {actionCreator}
\* Selector lists as a caller may write them: all callable, or with 'foo'.
SelectorLists == SeqsUpTo(Selectors, MaxSelectors)
MixedLists == SeqsUpTo(Selectors \cup {Str("foo")}, MaxSelectors)
\* Last arguments: the action creator, or 'foo', 42, { baz: true }, an array.
LastArgs == ActionCreators \cup {Str("foo"), Num("42"), Obj("baz", <<>>),
                                 ArrayLit(<<fooSelector>>)}

\* Arguments of selectorAction: none; selectors one by one; selectors in one
\* array; an array followed by further selectors.
ConstructionArgs ==
  {<<>>}
  \cup {xs \o <<l>> : xs \in MixedLists, l \in LastArgs}
  \cup {<<ArrayLit(xs), l>> : xs \in MixedLists, l \in LastArgs}
  \cup {<<ArrayLit(xs)>> \o ys \o <<l>> :
          xs \in SelectorLists, ys \in SeqsUpTo(Selectors, MaxSelectors - 1) \ {<<>>},
          l \in ActionCreators}

\* The selector list a caller wrote in `args`: the elements of the array, or
\* the arguments before the last.
ArrayForm(args) == Len(args) = 2 /\ IsArray(args[1])
GivenSelectors(args) ==
  IF ArrayForm(args) THEN args[1].xs ELSE SubSeq(args, 1, Len(args) - 1)
GivenActionCreator(args) == args[Len(args)]

\* The callers of one behaviour work with one selector list: once a unit
\* exists, further constructions give no argument, or that list one by one,
\* in an array, or in an array followed by further selectors.
FormsOf(xs) ==
  {xs \o <<l>> : l \in LastArgs}
    \cup {<<ArrayLit(xs), l>> : l \in LastArgs}
    \cup {<<ArrayLit(xs)>> \o ys \o <<l>> :
            ys \in SeqsUpTo(Selectors, MaxSelectors - 1) \ {<<>>},
            l \in ActionCreators}
CallerArgs ==
  IF Len(units) = 0 THEN ConstructionArgs
  ELSE {<<>>} \cup FormsOf(GivenSelectors(units[1].args))

\* Arguments of a composed unit and of a thunk: a live (dispatch, getState)
\* pair, nothing, one argument, a pair with a falsy member, or a pair with a
\* truthy member that is not callable.
LivePairs == {<<storeDispatch, getState>>, <<fakeDispatch, getState>>,
              <<fakeDispatch, doGetState>>}
OtherPairs ==
  {<<Undefined, Undefined>>, <<fakeDispatch, Undefined>>, <<Num("0"), getState>>,
   <<Num("42"), getState>>, <<Num("42"), Num("42")>>}
UnitArgs == LivePairs \cup OtherPairs
ThunkArgs == LivePairs \cup {<<Num("42"), getState>>}

\* What a store hands to the middleware, and what follows it in the chain.
StoreApis == {Obj("store", <<storeDispatch, getState>>),
              Obj("store", <<fakeDispatch, doGetState>>)}
NextStages == {nextStage}

\* Values dispatched through the middleware.
UserValues == {plainAction, plainFn, markedFn, falseMarkFn, markedObj, Undefined}
HeapRefs == {UnitRef(i) : i \in 1..Len(units)} \cup {ThunkRef(i) : i \in 1..Len(thunks)}

\* ----------------------------------------------------------------- actions
\* selectorAction(...args)
SelectorAction(args) ==
  /\ Len(units) < MaxUnits
  /\ \E err \in {ConstructionError(args)}, sel \in {ResolveSelectors(args)} :
        IF err # ""
        THEN /\ last' = Record("selectorAction", Undefined, args, store,
                               Outcome(<<>>, Undefined, err, FALSE))
             /\ UNCHANGED <<units, arrays, born>>
        ELSE /\ arrays' = Append(arrays, sel)
             /\ units' = Append(units, NewUnit(args, Len(arrays) + 1))
             /\ born' = [born EXCEPT !.units = Append(@, store)]
             /\ last' = Record("selectorAction", Undefined, args, store,
                               Outcome(<<>>, UnitRef(Len(units) + 1), "", FALSE))
  /\ UNCHANGED <<thunks, markers, store, mw>>

\* unit(dispatchArg, getStateArg); unit() is unit(undefined, undefined)
InvokeUnit(u, dispatchArg, getStateArg) ==
  /\ u \in 1..Len(units)
  /\ \E out \in {generatedActionCreator(u, dispatchArg, getStateArg, store)} :
        /\ thunks' = IF out.alloc THEN Append(thunks, NewThunk(u)) ELSE thunks
        /\ born' = IF out.alloc THEN [born EXCEPT !.thunks = Append(@, store)]
                    ELSE born
        /\ last' = Record("generatedActionCreator", UnitRef(u),
                          <<dispatchArg, getStateArg>>, store, out)
  /\ UNCHANGED <<units, arrays, markers, store, mw>>

\* thunk(dispatch, getState)
RunThunk(t, dispatch, getStateFn) ==
  /\ t \in 1..Len(thunks)
  /\ last' = Record("internalGeneratedSelectorAction", ThunkRef(t),
                    <<dispatch, getStateFn>>, store,
                    internalGeneratedSelectorAction(thunks[t].unit, dispatch,
                                                    getStateFn, store))
  /\ UNCHANGED <<units, thunks, arrays, markers, store, mw, born>>

\* Layer 1: ({ dispatch, getState }) => ...
ThunkMiddleware(api) ==
  /\ mw.stage = "created"
  /\ IF api.k = "undefined"
     THEN /\ last' = Record("thunkMiddleware", Undefined, <<api>>, store,
                            Outcome(<<>>, Undefined, DestructureMsg, FALSE))
          /\ UNCHANGED mw
     ELSE /\ mw' = [mw EXCEPT !.stage = "bound", !.dispatch = api.xs[1],
                              !.getState = api.xs[2]]
          /\ last' = Record("thunkMiddleware", Undefined, <<api>>, store,
                            Outcome(<<>>, Fn("nextHandler"), "", FALSE))
  /\ UNCHANGED <<units, thunks, arrays, markers, store, born>>

\* Layer 2: (next) => ...
NextHandler(next) ==
  /\ mw.stage = "bound"
  /\ mw' = [mw EXCEPT !.stage = "wired", !.next = next]
  /\ last' = Record("nextHandler", Undefined, <<next>>, store,
                    Outcome(<<>>, Fn("actionHandler"), "", FALSE))
  /\ UNCHANGED <<units, thunks, arrays, markers, store, born>>

\* Layer 3: (action) => ...
ActionHandler(action) ==
  /\ mw.stage = "wired"
  /\ \E out \in {HandleValue(action, mw.dispatch, mw.getState, mw.next, store)} :
        /\ out.alloc => Len(thunks) < MaxThunks
        /\ thunks' = IF out.alloc THEN Append(thunks, NewThunk(action.id)) ELSE thunks
        /\ born' = IF out.alloc THEN [born EXCEPT !.thunks = Append(@, store)]
                    ELSE born
        /\ last' = Record("actionHandler", action, <<action>>, store, out)
  /\ UNCHANGED <<units, arrays, markers, store, mw>>

\* The store's state changes (a reducer ran).
ChangeState ==
  /\ store' \in States \ {store}
  /\ last' = Record("setState", Undefined, <<store'>>, store,
                    Outcome(<<>>, Undefined, "", FALSE))
  /\ UNCHANGED <<units, thunks, arrays, markers, mw, born>>

\* A caller keeps at most n thunks: a unit call that would return another
\* thunk is not made once n are kept.
Keeps(p, n) == CalledAsThunk(p[1], p[2]) \/ Len(thunks) < n

\* The application creates its store, and with it the middleware chain,
\* before it constructs and dispatches anything.
StoreCreated == mw.stage = "wired"

Next ==
  \/ StoreCreated /\ \E args \in CallerArgs : SelectorAction(args)
  \/ StoreCreated /\ \E u \in 1..Len(units), p \in UnitArgs :
                        Keeps(p, MaxThunks) /\ InvokeUnit(u, p[1], p[2])
  \/ StoreCreated /\ \E t \in 1..Len(thunks), p \in ThunkArgs : RunThunk(t, p[1], p[2])
  \/ \E api \in StoreApis \cup {Undefined} : ThunkMiddleware(api)
  \/ \E next \in NextStages : NextHandler(next)
  \/ \E v \in UserValues \cup HeapRefs : ActionHandler(v)

\* Constructions, calls and dispatches of every kind on a store whose state
\* stays the one it starts with.
Spec == Init /\ [][Next]_vars

\* ------------------------------------------------- state changes in between
\* One unit, its thunks, and a store whose state changes between their
\* invocations.
InterleavingArgs ==
  IF Len(units) > 0 THEN {}
  ELSE {<<actionCreator>>, <<fooSelector, actionCreator>>,
        <<ArrayLit(<<bazSelector, fooSelector>>), actionCreator>>}
InterleavingPairs == {<<Undefined, Undefined>>, <<storeDispatch, getState>>}

NextInterleaving ==
  \/ \E args \in InterleavingArgs : SelectorAction(args)
  \/ \E u \in 1..Len(units), p \in InterleavingPairs :
        Keeps(p, MaxFresh) /\ InvokeUnit(u, p[1], p[2])
  \/ \E t \in 1..Len(thunks) : RunThunk(t, storeDispatch, getState)
  \/ ChangeState

SpecInterleaving == Init /\ [][NextInterleaving]_vars

\* ------------------------------------------------ supplied functions that throw
\* One unit; a getState that throws, one that returns undefined (on which
\* fooSelector throws) and an action creator that throws, called directly,
\* through a thunk and through the middleware.
ErrorArgs ==
  IF Len(units) > 0 THEN {}
  ELSE {<<fooSelector, bazSelector, actionCreator>>,
        <<bazSelector, fooSelector, actionCreator>>,
        <<bazSelector, failingCreator>>,
        <<ArrayLit(<<fooSelector, bazSelector>>), failingCreator>>}
ErrorAccessors == {getState, doGetState, failingGetState}
ErrorPairs == {<<storeDispatch, g>> : g \in ErrorAccessors}
ErrorApis == {Obj("store", <<storeDispatch, g>>) : g \in ErrorAccessors}

NextErrors ==
  \/ \E args \in ErrorArgs : SelectorAction(args)
  \/ \E u \in 1..Len(units), p \in ErrorPairs \cup {<<Undefined, Undefined>>} :
        Keeps(p, MaxThunks) /\ InvokeUnit(u, p[1], p[2])
  \/ \E t \in 1..Len(thunks), p \in ErrorPairs : RunThunk(t, p[1], p[2])
  \/ \E api \in ErrorApis : ThunkMiddleware(api)
  \/ \E next \in NextStages : NextHandler(next)
  \/ \E v \in HeapRefs : ActionHandler(v)

SpecErrors == Init /\ [][NextErrors]_vars

\* ------------------------------------------- the caller's array, changed later
\* What a caller can make of an array it holds: push a selector, pop the last
\* element, put another selector in place of an element.
Edits(xs) ==
  (IF Len(xs) < MaxSelectors THEN {Append(xs, f) : f \in Selectors} ELSE {})
    \cup (IF Len(xs) > 0 THEN {SubSeq(xs, 1, Len(xs) - 1)} ELSE {})
    \cup ({[xs EXCEPT ![i] = f] : i \in 1..Len(xs), f \in Selectors} \ {xs})

\* The caller changes array `a` of the heap, an array it passed in the array
\* form (lines 9-10: `selectors` is that very array).
MutateArray(a, xs) ==
  /\ a \in 1..Len(arrays)
  /\ arrays[a].owner = "caller"
  /\ arrays' = [arrays EXCEPT ![a].elems = xs]
  /\ last' = Record("mutateArray", Undefined, <<ArrayLit(xs)>>, store,
                    Outcome(<<>>, Undefined, "", FALSE))
  /\ UNCHANGED <<units, thunks, markers, store, mw, born>>

MutationArgs ==
  IF Len(units) > 0 THEN {}
  ELSE {<<ArrayLit(<<>>), actionCreator>>, <<ArrayLit(<<fooSelector>>), actionCreator>>,
        <<fooSelector, actionCreator>>}

NextMutation ==
  \/ \E args \in MutationArgs : SelectorAction(args)
  \/ \E u \in 1..Len(units), p \in InterleavingPairs :
        Keeps(p, MaxThunks) /\ InvokeUnit(u, p[1], p[2])
  \/ \E t \in 1..Len(thunks) : RunThunk(t, storeDispatch, getState)
  \/ \E a \in 1..Len(arrays) : \E xs \in Edits(arrays[a].elems) : MutateArray(a, xs)

SpecMutation == Init /\ [][NextMutation]_vars

\* ------------------------------------------------------------ properties
\* What the supplied functions give on state s.
Sees(f, xs, st) == CallUser(f, xs, st).ret
SelectorsReturn(sels, s, st) ==
  \A i \in 1..Len(sels) : CallUser(sels[i], <<s>>, st).threw = ""
SelectorResults(sels, s, st) == [i \in 1..Len(sels) |-> Sees(sels[i], <<s>>, st)]
ExpectedArguments(args, s, st) ==
  SelectorResults(GivenSelectors(args), s, st) \o <<s>>
ExpectedAction(args, s, st) ==
  Sees(GivenActionCreator(args), ExpectedArguments(args, s, st), st)

CallsTo(calls, f) == SelectSeq(calls, LAMBDA c : c.fn = f)
IsLibraryFn(v) == IsUnitRef(v) \/ IsThunkRef(v)
SuppliedCalls(calls) == SelectSeq(calls, LAMBDA c : ~IsLibraryFn(c.fn))

\* The arguments that constructed the unit a record's target belongs to.
ArgsOfTarget(r) ==
  IF IsUnitRef(r.target) THEN units[r.target.id].args
  ELSE units[thunks[r.target.id].unit].args
UnitOfTarget(r) ==
  IF IsUnitRef(r.target) THEN r.target.id ELSE thunks[r.target.id].unit

ThunkRun(r) == r.op = "internalGeneratedSelectorAction"
UnitCall(r) == r.op = "generatedActionCreator"
LiveArgs(r) == IsFunction(r.args[1]) /\ IsFunction(r.args[2])

\* The record r shows one execution for construction arguments `a` with
\* (dispatch, getState) = (d, g): the action creator was called once, with
\* the selector results in order and then the state; dispatch was called
\* once, with the action; the result is what dispatch returned.
ExecutedAsDocumented(r, a, d, g) ==
  LET s == Sees(g, <<>>, r.state)
      ac == GivenActionCreator(a)
  IN /\ r.threw = ""
     /\ CallsTo(r.calls, g) = <<Call(g, <<>>)>>
     /\ CallsTo(r.calls, ac) = <<Call(ac, ExpectedArguments(a, s, r.state))>>
     /\ Len(CallsTo(r.calls, ac)[1].args) = Len(GivenSelectors(a)) + 1
     /\ CallsTo(r.calls, d) = <<Call(d, <<ExpectedAction(a, s, r.state)>>)>>
     /\ r.ret = Sees(d, <<ExpectedAction(a, s, r.state)>>, r.state)

\* C1: running a thunk of a unit built from N selectors and an action creator
\* with a live (dispatch, getState) calls the action creator with N+1
\* arguments, the N selector results on getState()'s state in construction
\* order and then that state; dispatch gets the action creator's result and
\* the thunk returns what dispatch returned.
C1_ThunkCallsActionCreator ==
  (ThunkRun(last) /\ LiveArgs(last)) =>
    LET a == ArgsOfTarget(last)
        s == Sees(last.args[2], <<>>, last.state)
    IN SelectorsReturn(GivenSelectors(a), s, last.state) =>
         ExecutedAsDocumented(last, a, last.args[1], last.args[2])

C1_Witness ==
  /\ ThunkRun(last) /\ LiveArgs(last)
  /\ Len(GivenSelectors(ArgsOfTarget(last))) = 2
  /\ ArrayForm(ArgsOfTarget(last))
  /\ last.args[1] = storeDispatch
  /\ last.threw = ""
  /\ Len(CallsTo(last.calls, GivenActionCreator(ArgsOfTarget(last)))[1].args) = 3

\* C2: a direct call unit(dispatch, getState) with two callable arguments
\* makes the same calls to the supplied functions, and gives the caller the
\* same result, as running a thunk of that unit with the same arguments on
\* the same state; the result is never a thunk.
SameExecution(r1, r2) ==
  /\ UnitOfTarget(r1) = UnitOfTarget(r2)
  /\ r1.args = r2.args
  /\ r1.state = r2.state
DirectEqualsThunk(direct, run) ==
  /\ SuppliedCalls(direct.calls) = SuppliedCalls(run.calls)
  /\ direct.ret = run.ret
  /\ direct.threw = run.threw
  /\ ~IsThunkRef(direct.ret)
C2_DirectCallIsThunkRun ==
  [][/\ (ThunkRun(last) /\ UnitCall(last') /\ LiveArgs(last')
           /\ SameExecution(last, last')) => DirectEqualsThunk(last', last)
     /\ (UnitCall(last) /\ LiveArgs(last) /\ ThunkRun(last')
           /\ SameExecution(last, last')) => DirectEqualsThunk(last, last')]_vars

C2_Witness ==
  /\ UnitCall(last) /\ LiveArgs(last)
  /\ \E t \in 1..Len(thunks) : thunks[t].unit = last.target.id
  /\ Len(GivenSelectors(ArgsOfTarget(last))) = 2
  /\ last.threw = ""
  /\ Len(SuppliedCalls(last.calls)) = 5
  /\ last.ret = Obj("dispatched", <<ExpectedAction(ArgsOfTarget(last), last.state, last.state)>>)

\* C3 (as claimed): a unit executes at once only when called with two
\* callable arguments; any other call returns a thunk and calls none of the
\* supplied functions.
C3_ExecutesOnlyWhenBothCallable ==
  (UnitCall(last) /\ ~LiveArgs(last)) =>
    /\ IsThunkRef(last.ret)
    /\ last.threw = ""
    /\ SuppliedCalls(last.calls) = <<>>

\* The value handed to the middleware's handler, and what the handler captured.
Handled(r) == r.op = "actionHandler"
Marked(v) == IsFunction(v) /\ MarkerOf(v) = True
Forwardable(v) == ~(IsFunction(v) /\ Truthy(MarkerOf(v)))

\* What calling v with (d, g) on state st does, outside the middleware.
Invocation(v, d, g, st) ==
  IF IsUnitRef(v) THEN generatedActionCreator(v.id, d, g, st)
  ELSE IF IsThunkRef(v) THEN internalGeneratedSelectorAction(thunks[v.id].unit, d, g, st)
  ELSE LET c == CallUser(v, <<d, g>>, st) IN Outcome(<<>>, c.ret, c.threw, FALSE)

\* C4: the handler invokes a function whose marker is true exactly once, with
\* the captured dispatch and getState, returns that invocation's result and
\* does not call the next stage.
C4_MarkedFunctionIsInvoked ==
  (Handled(last) /\ Marked(last.target)) =>
    LET v == last.target
        inv == Invocation(v, mw.dispatch, mw.getState, last.state)
    IN /\ last.calls[1] = Call(v, <<mw.dispatch, mw.getState>>)
       /\ Len(CallsTo(last.calls, v)) = 1
       /\ CallsTo(last.calls, mw.next) = <<>>
       /\ last.ret = inv.ret
       /\ last.threw = inv.threw

C4_Witness ==
  /\ Handled(last)
  /\ last.target = markedFn
  /\ last.calls = <<Call(markedFn, <<storeDispatch, getState>>)>>
  /\ last.ret = Str("rocks")

\* C5: the handler passes a value that is not callable, or is callable
\* without a truthy marker, to the next stage once and unchanged, returns
\* what the next stage returns, and calls nothing else.
C5_OtherValuesAreForwarded ==
  (Handled(last) /\ Forwardable(last.target) /\ IsFunction(mw.next)) =>
    /\ last.calls = <<Call(mw.next, <<last.target>>)>>
    /\ last.ret = Sees(mw.next, <<last.target>>, last.state)
    /\ last.threw = ""

C5_Witness ==
  /\ Handled(last)
  /\ last.target = markedObj
  /\ last.ret = Obj("next", <<markedObj>>)

\* C6: handing a unit, or a thunk of a unit, to the handler calls the captured
\* dispatch once, with actionCreator(selector_1(s), ..., selector_N(s), s)
\* for s = getState(); the next stage is not called and the handler returns
\* what dispatch returned.
C6_UnitsAndThunksAreDispatched ==
  (Handled(last) /\ IsLibraryFn(last.target)) =>
    LET a == ArgsOfTarget(last)
        s == Sees(mw.getState, <<>>, last.state)
    IN SelectorsReturn(GivenSelectors(a), s, last.state) =>
         /\ ExecutedAsDocumented(last, a, mw.dispatch, mw.getState)
         /\ CallsTo(last.calls, mw.next) = <<>>

C6_Witness ==
  /\ Handled(last)
  /\ IsUnitRef(last.target)
  /\ \E t \in 1..Len(thunks) : thunks[t].unit = last.target.id
  /\ Len(GivenSelectors(ArgsOfTarget(last))) = 2
  /\ mw.dispatch = storeDispatch
  /\ last.ret = Obj("dispatched", <<ExpectedAction(ArgsOfTarget(last), last.state, last.state)>>)

\* An execution: a direct call or a thunk run with a live pair, or a unit or
\* thunk handled by the middleware; and the (dispatch, getState) it ran with.
Execution(r) ==
  \/ (UnitCall(r) \/ ThunkRun(r)) /\ LiveArgs(r)
  \/ Handled(r) /\ IsLibraryFn(r.target)
PairOf(r) == IF Handled(r) THEN <<mw.dispatch, mw.getState>> ELSE r.args
TwinForms(a, b) ==
  /\ ArrayForm(a) /\ ~ArrayForm(b)
  /\ GivenSelectors(a) = GivenSelectors(b)
  /\ GivenActionCreator(a) = GivenActionCreator(b)

\* C7: a unit built from an array of selectors and a unit built from the same
\* selectors one by one, with the same action creator, make the same calls
\* and return the same result on the same (dispatch, getState) and state.
C7_ArrayFormEqualsVariadicForm ==
  [][(/\ Execution(last) /\ Execution(last')
      /\ \/ TwinForms(ArgsOfTarget(last), ArgsOfTarget(last'))
         \/ TwinForms(ArgsOfTarget(last'), ArgsOfTarget(last))
      /\ PairOf(last) = PairOf(last')
      /\ last.state = last'.state)
     => /\ SuppliedCalls(last.calls) = SuppliedCalls(last'.calls)
        /\ last.ret = last'.ret
        /\ last.threw = last'.threw]_vars

C7_Witness ==
  /\ Len(units) = 2
  /\ TwinForms(units[1].args, units[2].args)
  /\ Len(GivenSelectors(units[1].args)) = 2
  /\ UnitCall(last) /\ LiveArgs(last)
  /\ last.target = UnitRef(2)
  /\ last.threw = ""
  /\ Len(SuppliedCalls(last.calls)) = 5

\* Construction records.
Construction(r) == r.op = "selectorAction"
HasBadSelector(args) ==
  \E i \in 1..Len(GivenSelectors(args)) : ~IsFunction(GivenSelectors(args)[i])
Refused(r, msg) == r.threw = msg /\ r.ret = Undefined /\ r.calls = <<>>

\* C8: construction with a selector that is not callable and a callable
\* action creator throws the selector error, the same in both forms; no unit
\* comes from such arguments and no supplied function is called.
C8_BadSelectorIsRefused ==
  /\ (Construction(last) /\ Len(last.args) > 0
        /\ IsFunction(GivenActionCreator(last.args)) /\ HasBadSelector(last.args))
       => Refused(last, SelectorMsg)
  /\ \A u \in 1..Len(units) : ~HasBadSelector(units[u].args)

C8_Witness ==
  /\ Construction(last)
  /\ ArrayForm(last.args)
  /\ Len(GivenSelectors(last.args)) = 2
  /\ IsFunction(GivenSelectors(last.args)[1])
  /\ ~IsFunction(GivenSelectors(last.args)[2])
  /\ IsFunction(GivenActionCreator(last.args))
  /\ last.threw = SelectorMsg

\* C9: construction whose last argument is not callable throws the action
\* creator error, whatever precedes it; no unit comes from such arguments.
C9_BadActionCreatorIsRefused ==
  /\ (Construction(last) /\ Len(last.args) > 0
        /\ ~IsFunction(GivenActionCreator(last.args)))
       => Refused(last, ActionCreatorMsg)
  /\ \A u \in 1..Len(units) : IsFunction(GivenActionCreator(units[u].args))

C9_Witness ==
  /\ Construction(last)
  /\ Len(last.args) > 1
  /\ HasBadSelector(last.args)
  /\ ~IsFunction(GivenActionCreator(last.args))
  /\ last.threw = ActionCreatorMsg

\* C10: construction without arguments throws the arity error, which is
\* neither the action creator error nor the selector error; no unit comes
\* from it.
C10_NoArgumentsIsRefused ==
  /\ (Construction(last) /\ Len(last.args) = 0) => Refused(last, ArityMsg)
  /\ ArityMsg \notin {ActionCreatorMsg, SelectorMsg}
  /\ \A u \in 1..Len(units) : Len(units[u].args) > 0

C10_Witness ==
  /\ Construction(last)
  /\ Len(last.args) = 0
  /\ last.threw = ArityMsg
  /\ Len(units) = 1

\* C11: the originalActionCreator property of every unit is the value given
\* as the last argument of its construction, which is also the action creator
\* its executions call; no invocation of the unit or of its thunks changes it.
C11_OriginalActionCreatorIsGiven ==
  \A u \in 1..Len(units) :
    /\ units[u].originalActionCreator = GivenActionCreator(units[u].args)
    /\ units[u].originalActionCreator = units[u].actionCreator
    /\ ~IsLibraryFn(units[u].originalActionCreator)

C11_Witness ==
  /\ Len(units) = 2 /\ Len(thunks) = 1
  /\ ThunkRun(last) /\ LiveArgs(last) /\ last.threw = ""
  /\ units[UnitOfTarget(last)].originalActionCreator = actionCreator
  /\ CallsTo(last.calls, actionCreator) # <<>>

\* C12: every unit and every thunk carries the marker IS_SELECTOR_ACTION with
\* the value true, a thunk returned to a caller included; the selectors and
\* the action creator a unit was built from carry no marker.
SuppliedTo(u) ==
  {GivenSelectors(units[u].args)[i] : i \in 1..Len(GivenSelectors(units[u].args))}
    \cup {GivenActionCreator(units[u].args)}
C12_MarkerOnUnitsAndThunksOnly ==
  /\ \A u \in 1..Len(units) : MarkerOf(UnitRef(u)) = True
  /\ \A t \in 1..Len(thunks) : MarkerOf(ThunkRef(t)) = True
  /\ (UnitCall(last) /\ IsThunkRef(last.ret)) => MarkerOf(last.ret) = True
  /\ \A u \in 1..Len(units) : \A f \in SuppliedTo(u) : MarkerOf(f) = Undefined

C12_Witness ==
  /\ Len(units) >= 1 /\ Len(thunks) = 1
  /\ UnitCall(last) /\ last.ret = ThunkRef(1)
  /\ Cardinality(SuppliedTo(last.target.id)) = 3
  /\ MarkerOf(markedFn) = True

\* The calls of one execution, in the order the code makes them.
OrderedCalls(a, d, g, st) ==
  LET s == Sees(g, <<>>, st)
      sels == GivenSelectors(a)
  IN <<Call(g, <<>>)>>
       \o [i \in 1..Len(sels) |-> Call(sels[i], <<s>>)]
       \o <<Call(GivenActionCreator(a), ExpectedArguments(a, s, st)),
            Call(d, <<ExpectedAction(a, s, st)>>)>>

\* C13: the calls an execution makes to the supplied functions are, in this
\* order and once each: getState(), every selector in construction order on
\* the state getState returned, the action creator, dispatch; the state the
\* selectors and the action creator get is the one value getState returned.
C13_CallsInOrderOnceEach ==
  Execution(last) =>
    LET a == ArgsOfTarget(last)
        p == PairOf(last)
    IN SelectorsReturn(GivenSelectors(a), Sees(p[2], <<>>, last.state), last.state)
         => SuppliedCalls(last.calls) = OrderedCalls(a, p[1], p[2], last.state)

C13_Witness ==
  /\ Execution(last) /\ UnitCall(last)
  /\ GivenSelectors(ArgsOfTarget(last)) = <<bazSelector, fooSelector>>
  /\ last.args = <<storeDispatch, getState>>
  /\ last.state = State("qux")
  /\ Len(SuppliedCalls(last.calls)) = 5
  /\ SuppliedCalls(last.calls)[2] = Call(bazSelector, <<State("qux")>>)
  /\ SuppliedCalls(last.calls)[3] = Call(fooSelector, <<State("qux")>>)
  /\ SuppliedCalls(last.calls)[4] =
       Call(actionCreator, <<Str("baz"), Str("qux"), State("qux")>>)

\* The selectors a unit holds.
SelectorsOf(u) == arrays[units[u].selectors].elems

\* C16: only two arguments of which the first is an array make the array
\* form.  One array alone is taken as the action creator and refused with the
\* action creator error; an array followed by further selectors and a
\* callable action creator is refused with the selector error; every unit
\* holds the elements of the array in the array form and the arguments before
\* the last otherwise, and ([], actionCreator) gives a unit without selectors.
C16_ArrayFormNeedsTwoArguments ==
  /\ (Construction(last) /\ Len(last.args) = 1 /\ IsArray(last.args[1]))
       => Refused(last, ActionCreatorMsg)
  /\ (Construction(last) /\ Len(last.args) >= 3 /\ IsArray(last.args[1])
        /\ IsFunction(last.args[Len(last.args)]))
       => Refused(last, SelectorMsg)
  /\ \A u \in 1..Len(units) :
       LET a == units[u].args
       IN /\ (Len(a) = 2 /\ IsArray(a[1])) => SelectorsOf(u) = a[1].xs
          /\ ~(Len(a) = 2 /\ IsArray(a[1]))
               => SelectorsOf(u) = SubSeq(a, 1, Len(a) - 1)
          /\ a = <<ArrayLit(<<>>), actionCreator>> => SelectorsOf(u) = <<>>
          /\ \A i \in 1..Len(a) - 1 : ~IsArray(a[i]) \/ Len(a) = 2

C16_Witness ==
  /\ Construction(last)
  /\ Len(last.args) = 3
  /\ last.args = <<ArrayLit(<<fooSelector>>), bazSelector, actionCreator>>
  /\ last.threw = SelectorMsg
  /\ Len(units) = 1
  /\ units[1].args = <<ArrayLit(<<fooSelector>>), actionCreator>>
  /\ SelectorsOf(1) = <<fooSelector>>

\* The store's state when the unit and the thunk of a record were created.
BornOfUnit(r) == born.units[UnitOfTarget(r)]
BornOfThunk(r) == born.thunks[r.target.id]

\* A unit call answered with a thunk: the thunk did not exist before, it
\* belongs to the unit called, and none of the supplied functions was called.
ReturnsNewThunk ==
  (UnitCall(last') /\ ~CalledAsThunk(last'.args[1], last'.args[2])) =>
    /\ IsThunkRef(last'.ret)
    /\ last'.ret.id = Len(thunks) + 1
    /\ Len(thunks') = Len(thunks) + 1
    /\ thunks'[last'.ret.id].unit = last'.target.id
    /\ last'.calls = <<>>

\* An invocation leaves alone what other executions compute from: the units,
\* their selectors, the store's state and the thunks that exist.
LeavesOthersAlone ==
  (UnitCall(last') \/ ThunkRun(last')) =>
    /\ UNCHANGED <<units, arrays, store, markers>>
    /\ SubSeq(thunks', 1, Len(thunks)) = thunks

\* C14: with the store's state changing between invocations, every execution
\* runs on the state the store has when it runs (not the state at the unit's
\* construction or at the thunk's creation); a unit call without arguments
\* returns a thunk that did not exist before; an invocation changes nothing
\* another execution computes from.
C14_ExecutionsReadCurrentState ==
  /\ [](Execution(last) =>
          /\ last.state = store
          /\ ExecutedAsDocumented(last, ArgsOfTarget(last), last.args[1],
                                  last.args[2]))
  /\ [][ReturnsNewThunk /\ LeavesOthersAlone]_vars

C14_Witness ==
  /\ Len(thunks) = 2
  /\ ThunkRun(last) /\ last.target = ThunkRef(1)
  /\ thunks[1].unit = thunks[2].unit
  /\ BornOfUnit(last) = State("bar")
  /\ BornOfThunk(last) = State("bar")
  /\ born.thunks[2] = State("qux")
  /\ store = State("qux")
  /\ last.state = State("qux")
  /\ GivenSelectors(ArgsOfTarget(last)) = <<bazSelector, fooSelector>>
  /\ last.ret = Obj("dispatched",
                    <<Obj("A", <<Str("baz"), Str("qux"), State("qux")>>)>>)

\* The selectors an execution called, in order.
SelectorsCalled(r) ==
  LET cs == SelectSeq(SuppliedCalls(r.calls),
                      LAMBDA c : c.fn \in Selectors)
  IN [i \in 1..Len(cs) |-> cs[i].fn]

\* C15 (as claimed): every execution applies the selectors given at
\* construction, in that order, and gives the action creator that many
\* arguments before the state, also after the caller changed the array it
\* passed in the array form.
C15_SelectorsFixedAtConstruction ==
  (Execution(last) /\ last.threw = "") =>
    LET a == ArgsOfTarget(last)
    IN /\ SelectorsCalled(last) = GivenSelectors(a)
       /\ Len(CallsTo(last.calls, GivenActionCreator(a))[1].args)
            = Len(GivenSelectors(a)) + 1

\* The same for the units built from selectors given one by one, whose
\* array is the library's own.
SlicedSelectorsAreFixed ==
  (Execution(last) /\ last.threw = "" /\ ~ArrayForm(ArgsOfTarget(last))) =>
    /\ SelectorsCalled(last) = GivenSelectors(ArgsOfTarget(last))
    /\ SelectorsOf(UnitOfTarget(last)) = GivenSelectors(ArgsOfTarget(last))

\* The record shows error e reaching the caller after exactly `calls`.
Propagated(r, e, calls) ==
  /\ r.threw = e
  /\ r.ret = Undefined
  /\ SuppliedCalls(r.calls) = calls

\* The selectors that throw on state s, and the calls made up to the k-th.
ThrowingSelectors(sels, s, st) ==
  {i \in 1..Len(sels) : CallUser(sels[i], <<s>>, st).threw # ""}
FirstOf(S) == CHOOSE i \in S : \A j \in S : i <= j
CallsUpTo(g, sels, k, s) ==
  <<Call(g, <<>>)>> \o [i \in 1..k |-> Call(sels[i], <<s>>)]

\* C17: an error thrown by getState, by a selector or by the action creator
\* reaches the caller of the thunk, of the direct call and of the middleware's
\* handler; nothing is called after the function that threw: no further
\* selector, no action creator after a selector or getState threw, no
\* dispatch, and the handler does not call the next stage.
C17_ErrorsPropagate ==
  Execution(last) =>
    LET a == ArgsOfTarget(last)
        g == PairOf(last)[2]
        st == last.state
        got == CallUser(g, <<>>, st)
        sels == GivenSelectors(a)
        bad == ThrowingSelectors(sels, got.ret, st)
        ac == GivenActionCreator(a)
        acArgs == ExpectedArguments(a, got.ret, st)
    IN /\ got.threw # "" => Propagated(last, got.threw, <<Call(g, <<>>)>>)
       /\ (got.threw = "" /\ bad # {}) =>
            Propagated(last,
                       CallUser(sels[FirstOf(bad)], <<got.ret>>, st).threw,
                       CallsUpTo(g, sels, FirstOf(bad), got.ret))
       /\ (got.threw = "" /\ bad = {} /\ CallUser(ac, acArgs, st).threw # "") =>
            Propagated(last, CallUser(ac, acArgs, st).threw,
                       CallsUpTo(g, sels, Len(sels), got.ret)
                         \o <<Call(ac, acArgs)>>)

C17_Witness ==
  /\ Handled(last) /\ IsThunkRef(last.target)
  /\ ArgsOfTarget(last) = <<ArrayLit(<<fooSelector, bazSelector>>), failingCreator>>
  /\ mw.getState = getState
  /\ last.threw = NoActionMsg
  /\ Len(SuppliedCalls(last.calls)) = 4
  /\ CallsTo(last.calls, storeDispatch) = <<>>
  /\ CallsTo(last.calls, nextStage) = <<>>

====
